---- MODULE Spec2Model ----
(***************************************************************************)
(* Model of prepare_datasets.py: the two lock-guarded resource fetchers,   *)
(* the per-z dataset builder and the thread-pool batch runner.             *)
(*                                                                         *)
(* The filesystem is the shared state.  Every subprocess call and every    *)
(* file operation of a worker thread is one step; external calls (curl,    *)
(* git clone, the transform tool, read_csv, to_hdf, os.remove) choose      *)
(* their outcome nondeterministically among success and failure.           *)
(* Failures of os.makedirs and shutil.rmtree are not modelled.             *)
(***************************************************************************)
EXTENDS Integers, Sequences, FiniteSets, TLC

\* ------------------------------------------------------------------ bounds
MaxBatch == 2        \* longest z_values list explored
MaxRows == 1         \* most rows in an intermediate table
MaxWorkers == 2      \* largest pool size explored by SpecWorkers

\* --------------------------------------------------------- program values
\* string forms of z handed to prepare_datasets_for (two of the 24 of
\* prepare_all_datasets)
ZStrings == {"0.9", "1.0"}

\* float(z), in tenths
float(z) == CASE z = "0.9" -> 9
              [] z = "1.0" -> 10

\* the filter threshold of line 84
Threshold == 22

\* values of the PRI_tau_pt column the transform tool may emit
PtValues == {22, 23}

\* ThreadPoolExecutor(max_workers=1)
ReferenceWorkers == 1

Dirs == {"data", "data/3rd-party", "data/skewed"}

\* an intermediate CSV row: only the filtered column is modelled, EventId
\* is the row's position in the file
CsvRow(k, v) == [EventId |-> k, PRI_tau_pt |-> v]

Tables ==
  UNION { { [k \in 1..len |-> CsvRow(k, f[k])] : f \in [1..len -> PtValues] }
          : len \in 0..MaxRows }

NoFile == [exists |-> FALSE, complete |-> FALSE, rows |-> <<>>]
File(rows) == [exists |-> TRUE, complete |-> TRUE, rows |-> rows]
\* what an interrupted HDF5 write leaves at the path
PartialFile == [exists |-> TRUE, complete |-> FALSE, rows |-> <<>>]

\* exceptions, by type
None == "None"
Unset == "unset"

VARIABLES
  z_values,            \* the argument of prepare_datasets_for
  max_workers,         \* pool size
  faulty,              \* the external operations that may fail in this run
  emits,               \* the tables the transform tool may write in this run
  base,                \* data/atlas-higgs-challenge-2014-v2.csv.gz
  dw,                  \* data/3rd-party/datawarehouse
  dirs,                \* existing directories
  csv,                 \* data/skewed/HiggsML_TES_{z}.csv.gz per z
  h5,                  \* data/skewed/HiggsML_TES_{z}.h5 per z
  base_dataset_lock,   \* 0 = free, else the holding worker
  datawarehouse_lock,
  wpc,                 \* per worker thread: position in the code
  wfut,                \* per worker thread: index of the future it runs
  wraw,                \* per worker thread: table returned by read_csv
  wdf,                 \* per worker thread: the local df
  queue,               \* executor work queue (future indices)
  fstate,              \* per future: PENDING / RUNNING / FINISHED
  fresult,             \* per future: value returned by catch(...)
  completed,           \* futures in the order they finished
  printed,             \* the "Exception: ..." lines printed by catch
  mpc,                 \* main thread: position in prepare_datasets_for
  finished0,           \* as_completed: futures already done when it starts
  yielded,             \* as_completed: futures already yielded, in order
  log,                 \* the "Done (i/n) z = ..." lines printed
  raised,              \* the exception raised by prepare_datasets_for
  steps                \* per future: the external operations it performed
                       \* (and whether the durable artifact was there
                       \* when it was called)

fsvars == <<base, dw, dirs, csv, h5>>
lockvars == <<base_dataset_lock, datawarehouse_lock>>
wvars == <<wpc, wfut, wraw, wdf>>
futvars == <<queue, fstate, fresult, completed, printed>>
mainvars == <<mpc, finished0, yielded, log, raised>>
vars == <<z_values, max_workers, faulty, emits, base, dw, dirs, csv, h5,
          base_dataset_lock, datawarehouse_lock, wpc, wfut, wraw, wdf,
          queue, fstate, fresult, completed, printed,
          mpc, finished0, yielded, log, raised, steps>>

\* the threads of the pool
OneThreadMore == 1..(max_workers + 1)
Workers == 1..max_workers
Futures == DOMAIN z_values
n == Len(z_values)

\* ------------------------------------------------------------ filesystem
\* os.path.exists of the two presence markers
BaseExists == base # "absent"
DwMarkerExists == dw = "present"
DwDirExists == dw # "absent"

\* os.makedirs(path, exist_ok=True): the directory and its parents
makedirs(path) == dirs \cup {path, "data"}

\* directories that must exist for the files that exist
RequiredDirs(b, d, c, h) ==
  (IF b # "absent" THEN {"data"} ELSE {})
  \cup (IF d # "absent" THEN {"data", "data/3rd-party"} ELSE {})
  \cup (IF \E z \in ZStrings : c[z].exists \/ h[z].exists
        THEN {"data", "data/skewed"} ELSE {})

\* ------------------------------------------------------------- dataframe
RECURSIVE FilterRows(_)
FilterRowsGe(df) == SelectSeq(df, LAMBDA r : r.PRI_tau_pt >= Threshold)
\* df[df['PRI_tau_pt'] > 22]: the rows whose mask entry is True, in order
FilterRows(df) ==
  IF df = <<>> THEN <<>>
  ELSE IF Head(df).PRI_tau_pt > Threshold
       THEN <<Head(df)>> \o FilterRows(Tail(df))
       ELSE FilterRows(Tail(df))

\* df['Z'] = float(z): the scalar is broadcast to every row
AddZ(df, z) ==
  [k \in DOMAIN df |-> [EventId |-> df[k].EventId,
                        PRI_tau_pt |-> df[k].PRI_tau_pt,
                        Z |-> float(z)]]


\* ------------------------------------------------------------- exceptions
CurlError == "CalledProcessError(curl)"
GitError == "CalledProcessError(git)"
TransformError == "CalledProcessError(python)"
ReadError == "read_csv error"
NotFound == "FileNotFoundError"
WriteError == "to_hdf error"
RemoveError == "OSError(remove)"
\* the external operations, each of which raises when it fails
Operations == {"curl", "git", "transform", "read_csv", "to_hdf", "remove"}
Faults == {CurlError, GitError, TransformError, ReadError, NotFound,
           WriteError, RemoveError}

\* ---------------------------------------------------------- worker thread
zOf(w) == z_values[wfut[w]]

\* the steps an invocation has performed so far, one more added
Did(w, s) == [steps EXCEPT ![wfut[w]] = @ \cup s]

\* catch(func): the wrapped call returns None, or prints the exception and
\* returns it; the future finishes with that value and the worker goes back
\* to the queue
FinishDropFault(w, res) ==
  /\ fstate' = [fstate EXCEPT ![wfut[w]] = "FINISHED"]
  /\ fresult' = [fresult EXCEPT ![wfut[w]] = None]
  /\ completed' = Append(completed, wfut[w])
  /\ printed' = IF res # None THEN Append(printed, res) ELSE printed
  /\ wpc' = [wpc EXCEPT ![w] = "idle"]
  /\ wfut' = [wfut EXCEPT ![w] = 0]
  /\ wraw' = [wraw EXCEPT ![w] = <<>>]
  /\ wdf' = [wdf EXCEPT ![w] = <<>>]
  /\ UNCHANGED queue

Finish(w, res) ==
  /\ fstate' = [fstate EXCEPT ![wfut[w]] = "FINISHED"]
  /\ fresult' = [fresult EXCEPT ![wfut[w]] = res]
  /\ completed' = Append(completed, wfut[w])
  /\ printed' = IF res # None THEN Append(printed, res) ELSE printed
  /\ wpc' = [wpc EXCEPT ![w] = "idle"]
  /\ wfut' = [wfut EXCEPT ![w] = 0]
  /\ wraw' = [wraw EXCEPT ![w] = <<>>]
  /\ wdf' = [wdf EXCEPT ![w] = <<>>]
  /\ UNCHANGED queue

\* an exception leaving the wrapped function: catch returns it
RaiseSwallowed(w, e) == FinishDropFault(w, e)
Raise(w, e) == Finish(w, e)

Goto(w, pc) ==
  /\ wpc' = [wpc EXCEPT ![w] = pc]
  /\ UNCHANGED <<wfut, wraw, wdf, futvars>>

\* a pool thread takes the oldest work item and marks its future running
\* (the idle threads are interchangeable: the lowest-numbered one takes it)
TakeWork(w) ==
  /\ wpc[w] = "idle"
  /\ \A v \in Workers : v < w => wpc[v] # "idle"
  /\ queue # <<>>
  /\ queue' = Tail(queue)
  /\ fstate' = [fstate EXCEPT ![Head(queue)] = "RUNNING"]
  /\ wfut' = [wfut EXCEPT ![w] = Head(queue)]
  /\ wpc' = [wpc EXCEPT ![w] = "base_lock"]
  /\ steps' = [steps EXCEPT ![Head(queue)] =
                 IF h5[z_values[Head(queue)]].exists
                 THEN {"called_with_durable"} ELSE {}]
  /\ UNCHANGED <<z_values, max_workers, faulty, emits, fsvars, lockvars, wraw,
                 wdf, fresult, completed, printed, mainvars>>

\* ---- ensure_base_dataset_downloaded
LockFreeAlways(l) == TRUE
\* Lock.acquire blocks until the lock is free
LockFree(l) == l = 0

BaseAcquire(w) ==
  /\ wpc[w] = "base_lock"
  /\ LockFree(base_dataset_lock)
  /\ base_dataset_lock' = w
  /\ Goto(w, "base_check")
  /\ UNCHANGED <<z_values, max_workers, faulty, emits, fsvars, datawarehouse_lock, mainvars,
                 steps>>

\* the early return of the presence check
BasePresentNever == FALSE
BasePresent == BaseExists

\* (acquire and release without the with statement: the early return would
\* leave the lock held)
BaseCheckKeepsLock(w) ==
  /\ wpc[w] = "base_check"
  /\ dirs' = makedirs("data")
  /\ steps' = IF dirs' # dirs THEN Did(w, {"mkdir"}) ELSE steps
  /\ IF BasePresent
     THEN Goto(w, "dw_lock")
     ELSE Goto(w, "base_fetch")
  /\ UNCHANGED <<z_values, max_workers, faulty, emits, base, dw, csv, h5, lockvars,
                 mainvars>>

BaseCheck(w) ==
  /\ wpc[w] = "base_check"
  /\ dirs' = makedirs("data")
  /\ steps' = IF dirs' # dirs THEN Did(w, {"mkdir"}) ELSE steps
  /\ IF BasePresent
     THEN /\ base_dataset_lock' = 0
          /\ Goto(w, "dw_lock")
     ELSE /\ UNCHANGED base_dataset_lock
          /\ Goto(w, "base_fetch")
  /\ UNCHANGED <<z_values, max_workers, faulty, emits, base, dw, csv, h5, datawarehouse_lock,
                 mainvars>>

\* curl -O: the file appears when the first bytes arrive; a transfer that
\* fails later leaves what was received at the path
CurlFailureLeaves == {base, "partial"}

\* (acquire and release without the with statement: a failing fetch would
\* leave the lock held)
BaseFetchKeepsLock(w) ==
  /\ wpc[w] = "base_fetch"
  /\ steps' = Did(w, {"curl"})
  /\ \/ /\ base' = "complete"
        /\ base_dataset_lock' = 0
        /\ Goto(w, "dw_lock")
     \/ /\ "curl" \in faulty
        /\ base' \in CurlFailureLeaves
        /\ UNCHANGED base_dataset_lock
        /\ Raise(w, CurlError)
  /\ UNCHANGED <<z_values, max_workers, faulty, emits, dw, dirs, csv, h5, datawarehouse_lock,
                 mainvars>>

\* the with block is left, by the end of the function or by the exception
\* of check=True: the lock is released either way
BaseFetch(w) ==
  /\ wpc[w] = "base_fetch"
  /\ base_dataset_lock' = 0
  /\ steps' = Did(w, {"curl"})
  /\ \/ /\ base' = "complete"
        /\ Goto(w, "dw_lock")
     \/ /\ "curl" \in faulty
        /\ base' \in CurlFailureLeaves
        /\ Raise(w, CurlError)
  /\ UNCHANGED <<z_values, max_workers, faulty, emits, dw, dirs, csv, h5, datawarehouse_lock,
                 mainvars>>

\* ---- ensure_datawarehouse_downloaded
DwAcquire(w) ==
  /\ wpc[w] = "dw_lock"
  /\ LockFree(datawarehouse_lock)
  /\ datawarehouse_lock' = w
  /\ Goto(w, "dw_check")
  /\ UNCHANGED <<z_values, max_workers, faulty, emits, fsvars, base_dataset_lock, mainvars,
                 steps>>

DwPresent == DwMarkerExists

DwCheck(w) ==
  /\ wpc[w] = "dw_check"
  /\ dirs' = makedirs("data/3rd-party")
  /\ steps' = IF dirs' # dirs THEN Did(w, {"mkdir"}) ELSE steps
  /\ IF DwPresent
     THEN /\ datawarehouse_lock' = 0
          /\ Goto(w, "skewed_check")
     ELSE /\ UNCHANGED datawarehouse_lock
          /\ Goto(w, "dw_rmtree")
  /\ UNCHANGED <<z_values, max_workers, faulty, emits, base, dw, csv, h5, base_dataset_lock,
                 mainvars>>

\* os.path.exists('data/3rd-party/datawarehouse') before the clone
StaleCopyIgnored == FALSE
StaleCopyExists == DwDirExists

\* if os.path.exists(...): shutil.rmtree(...)
DwRmtree(w) ==
  /\ wpc[w] = "dw_rmtree"
  /\ IF StaleCopyExists
     THEN /\ dw' = "absent"
          /\ steps' = Did(w, {"rmtree"})
     ELSE UNCHANGED <<dw, steps>>
  /\ Goto(w, "dw_clone")
  /\ UNCHANGED <<z_values, max_workers, faulty, emits, base, dirs, csv, h5, lockvars,
                 mainvars>>

\* git clone removes the directory it created when it fails, except when
\* the clone succeeded and the checkout failed
GitFailureLeaves == {"absent", "stale"}

\* (subprocess.run without check=True: a failed clone would go unnoticed)
DwCloneUnchecked(w) ==
  /\ wpc[w] = "dw_clone"
  /\ datawarehouse_lock' = 0
  /\ steps' = Did(w, {"git"})
  /\ \/ dw' = "present"
     \/ "git" \in faulty /\ dw' \in GitFailureLeaves
  /\ Goto(w, "skewed_check")
  /\ UNCHANGED <<z_values, max_workers, faulty, emits, base, dirs, csv, h5, base_dataset_lock,
                 mainvars>>

\* subprocess.run(['git', 'clone', ...], check=True, cwd='data/3rd-party')
DwClone(w) ==
  /\ wpc[w] = "dw_clone"
  /\ datawarehouse_lock' = 0
  /\ steps' = Did(w, {"git"})
  /\ \/ /\ dw' = "present"
        /\ Goto(w, "skewed_check")
     \/ /\ "git" \in faulty
        /\ dw' \in GitFailureLeaves
        /\ Raise(w, GitError)
  /\ UNCHANGED <<z_values, max_workers, faulty, emits, base, dirs, csv, h5, base_dataset_lock,
                 mainvars>>

\* ---- ensure_skewed_dataset_prepared, after the two ensure calls
\* the completion marker: if os.path.exists(output_h5_path): return
DurableNever(z) == FALSE
DurableExists(z) == h5[z].exists

SkewedCheck(w) ==
  /\ wpc[w] = "skewed_check"
  /\ dirs' = makedirs("data/skewed")
  /\ steps' = IF dirs' # dirs THEN Did(w, {"mkdir"}) ELSE steps
  /\ IF DurableExists(zOf(w))
     THEN Finish(w, None)
     ELSE Goto(w, "csv_check")
  /\ UNCHANGED <<z_values, max_workers, faulty, emits, base, dw, csv, h5, lockvars, mainvars>>

\* if not os.path.exists(output_csv_path)
CsvCheck(w) ==
  /\ wpc[w] = "csv_check"
  /\ IF csv[zOf(w)].exists
     THEN Goto(w, "read_csv")
     ELSE Goto(w, "transform")
  /\ UNCHANGED <<z_values, max_workers, faulty, emits, fsvars, lockvars, mainvars, steps>>

\* python -m datawarehouse.higgsml -i ... -o output_csv_path --tes z
\* A failing run leaves the output path as it was.
TransformFailureLeaves(z) == {csv[z]}

Transform(w) ==
  /\ wpc[w] = "transform"
  /\ steps' = Did(w, {"transform"})
  /\ \/ /\ \E t \in emits : csv' = [csv EXCEPT ![zOf(w)] = File(t)]
        /\ Goto(w, "read_csv")
     \/ /\ "transform" \in faulty
        /\ \E f \in TransformFailureLeaves(zOf(w)) :
             csv' = [csv EXCEPT ![zOf(w)] = f]
        /\ Raise(w, TransformError)
  /\ UNCHANGED <<z_values, max_workers, faulty, emits, base, dw, dirs, h5, lockvars,
                 mainvars>>

\* the z whose value is written to the Z column
AugmentZOther(w) == CHOOSE z \in ZStrings : z # zOf(w)
AugmentZ(w) == zOf(w)

\* df = pd.read_csv(output_csv_path)
\* df = df[df['PRI_tau_pt'] > 22]; df['Z'] = float(z)
\* (the filter and the new column are local to the thread: one step with
\* the read)
ReadFilter(w) ==
  /\ wpc[w] = "read_csv"
  /\ IF ~csv[zOf(w)].exists
     THEN /\ steps' = Did(w, {"read_csv"})
          /\ Raise(w, NotFound)
     ELSE \/ /\ steps' = Did(w, {"read_csv", "filter"})
             /\ wraw' = [wraw EXCEPT ![w] = csv[zOf(w)].rows]
             /\ wdf' = [wdf EXCEPT ![w] =
                          AddZ(FilterRows(csv[zOf(w)].rows), AugmentZ(w))]
             /\ wpc' = [wpc EXCEPT ![w] = "to_hdf"]
             /\ UNCHANGED <<wfut, futvars>>
          \/ /\ "read_csv" \in faulty
             /\ steps' = Did(w, {"read_csv"})
             /\ Raise(w, ReadError)
  /\ UNCHANGED <<z_values, max_workers, faulty, emits, fsvars, lockvars, mainvars>>

\* a write that fails leaves the path as it was or a truncated file
WriteFailureLeaves(z) == {h5[z], PartialFile}

\* df.to_hdf(output_h5_path, key='data_syst', ...)
ToHdf(w) ==
  /\ wpc[w] = "to_hdf"
  /\ steps' = Did(w, {"to_hdf"})
  /\ \/ /\ h5' = [h5 EXCEPT ![zOf(w)] = File(wdf[w])]
        /\ Goto(w, "remove")
     \/ /\ "to_hdf" \in faulty
        /\ \E f \in WriteFailureLeaves(zOf(w)) :
             h5' = [h5 EXCEPT ![zOf(w)] = f]
        /\ Raise(w, WriteError)
  /\ UNCHANGED <<z_values, max_workers, faulty, emits, base, dw, dirs, csv, lockvars,
                 mainvars>>

\* os.remove(output_csv_path)
Remove(w) ==
  /\ wpc[w] = "remove"
  /\ steps' = Did(w, {"remove"})
  /\ IF ~csv[zOf(w)].exists
     THEN /\ Raise(w, NotFound)
          /\ UNCHANGED csv
     ELSE \/ /\ csv' = [csv EXCEPT ![zOf(w)] = NoFile]
             /\ Finish(w, None)
          \/ /\ "remove" \in faulty
             /\ UNCHANGED csv
             /\ Raise(w, RemoveError)
  /\ UNCHANGED <<z_values, max_workers, faulty, emits, base, dw, dirs, h5, lockvars,
                 mainvars>>

\* ------------------------------------------------------------ main thread
NoException == [fut |-> 0, exc |-> None]

\* futures = {executor.submit(catch(ensure_skewed_dataset_prepared), z): z
\*            for z in z_values}: the work items are queued in the order of
\* z_values
Submit ==
  /\ mpc = "submit"
  /\ fstate' = [i \in Futures |-> "PENDING"]
  /\ queue' = [i \in Futures |-> i]
  /\ mpc' = "as_completed"
  /\ UNCHANGED <<z_values, max_workers, faulty, emits, fsvars, lockvars, wvars, fresult,
                 completed, printed, finished0, yielded, log, raised, steps>>

\* as_completed(futures) starts: the futures already finished are set aside
AsCompleted ==
  /\ mpc = "as_completed"
  /\ finished0' = {i \in Futures : fstate[i] = "FINISHED"}
  /\ mpc' = IF n = 0 THEN "shutdown" ELSE "iterate"
  /\ UNCHANGED <<z_values, max_workers, faulty, emits, fsvars, lockvars, wvars, futvars,
                 yielded, log, raised, steps>>

Range(s) == {s[k] : k \in DOMAIN s}

\* the futures as_completed may yield next: any of those finished before it
\* started, then the others in the order they finished
Later == SelectSeq(completed, LAMBDA i : i \notin finished0 /\ i \notin Range(yielded))
NextYield ==
  IF finished0 \ Range(yielded) # {}
  THEN finished0 \ Range(yielded)
  ELSE IF Later # <<>> THEN {Head(Later)} ELSE {}

DoneLine(i) == [count |-> Len(yielded) + 1, total |-> n, z |-> z_values[i]]

\* the loop body when the result is an exception: raise exc
RaiseAfterLoop(i) ==
  /\ raised' = IF raised = NoException
               THEN [fut |-> i, exc |-> fresult[i]] ELSE raised
  /\ log' = Append(log, DoneLine(i))
  /\ mpc' = IF Len(yielded') = n THEN "shutdown" ELSE "iterate"
RaiseFirstSubmitted(i) ==
  /\ raised' = LET j == CHOOSE j \in Futures :
                           /\ fresult[j] \in Faults
                           /\ \A k \in Futures : fresult[k] \in Faults => j <= k
                IN [fut |-> j, exc |-> fresult[j]]
  /\ mpc' = "shutdown"
  /\ UNCHANGED log
RaiseNow(i) ==
  /\ raised' = [fut |-> i, exc |-> fresult[i]]
  /\ mpc' = "shutdown"
  /\ UNCHANGED log

\* one iteration of: for i, future in enumerate(as_completed(futures));
\* the loop ends after the last future
Iterate ==
  /\ mpc = "iterate"
  /\ \E i \in NextYield :
       /\ yielded' = Append(yielded, i)
       /\ IF fresult[i] # None
          THEN RaiseNow(i)
          ELSE /\ log' = Append(log, DoneLine(i))
               /\ mpc' = IF Len(yielded') = n THEN "shutdown" ELSE "iterate"
               /\ UNCHANGED raised
  /\ UNCHANGED <<z_values, max_workers, faulty, emits, fsvars, lockvars, wvars, futvars,
                 finished0, steps>>

\* what executor.__exit__ waits for: shutdown(wait=True) joins the pool
\* threads, which leave only when the work queue is empty
ShutdownNoWait == TRUE
ShutdownQueueOnly == queue = <<>>
ShutdownJoined == queue = <<>> /\ \A w \in Workers : wpc[w] = "idle"

\* leaving the with block, normally or by the exception
Shutdown ==
  /\ mpc = "shutdown"
  /\ ShutdownJoined
  /\ mpc' = "done"
  /\ UNCHANGED <<z_values, max_workers, faulty, emits, fsvars, lockvars, wvars, futvars,
                 finished0, yielded, log, raised, steps>>

\* ------------------------------------------------------------ the program
Batches == UNION {[1..k -> ZStrings] : k \in 0..MaxBatch}

\* a table with a row at the threshold and a row above it
SampleTable == <<CsvRow(1, 22), CsvRow(2, 23)>>

\* what an earlier run may have left behind for z
LeftoverCsv == {NoFile, File(SampleTable)}
LeftoverH5(z) == {NoFile, File(AddZ(FilterRows(SampleTable), z))}

\* the shared resources are there or not; the per-z files of the batch may
\* be left over from an earlier run
InitFiles ==
  /\ z_values \in Batches
  /\ base \in {"absent", "complete"}
  /\ dw \in {"absent", "present"}
  /\ csv \in [ZStrings -> LeftoverCsv]
  /\ h5 \in {h \in [ZStrings -> {NoFile} \cup UNION {LeftoverH5(z) : z \in ZStrings}] :
               \A z \in ZStrings : h[z] \in LeftoverH5(z)}
  /\ \A z \in ZStrings \ Range(z_values) : csv[z] = NoFile /\ h5[z] = NoFile
  /\ dirs = RequiredDirs(base, dw, csv, h5)

\* a fresh working directory: nothing downloaded, nothing prepared
InitFresh ==
  /\ z_values \in Batches
  /\ base = "absent"
  /\ dw = "absent"
  /\ csv = [z \in ZStrings |-> NoFile]
  /\ h5 = [z \in ZStrings |-> NoFile]
  /\ dirs = {}

InitRun ==
  /\ base_dataset_lock = 0
  /\ datawarehouse_lock = 0
  /\ wpc = [w \in Workers |-> "idle"]
  /\ wfut = [w \in Workers |-> 0]
  /\ wraw = [w \in Workers |-> <<>>]
  /\ wdf = [w \in Workers |-> <<>>]
  /\ queue = <<>>
  /\ fstate = [i \in Futures |-> "NEW"]
  /\ fresult = [i \in Futures |-> Unset]
  /\ completed = <<>>
  /\ printed = <<>>
  /\ mpc = "submit"
  /\ finished0 = {}
  /\ yielded = <<>>
  /\ log = <<>>
  /\ raised = NoException
  /\ steps = [i \in Futures |-> {}]

\* prepare_datasets_for(z_values) as written, a pool of one thread; every
\* external operation may fail, the tool writes the sample table
Init ==
  /\ max_workers = ReferenceWorkers
  /\ faulty = Operations
  /\ emits = {SampleTable}
  /\ InitFiles
  /\ InitRun

\* the same with no failure and the tool writing any table
InitData ==
  /\ max_workers = ReferenceWorkers
  /\ faulty = {}
  /\ emits = Tables
  /\ InitFiles
  /\ InitRun

\* a pool of any size on a fresh working directory; the fetches may fail
InitWorkers ==
  /\ max_workers \in 1..MaxWorkers
  /\ faulty = {"curl", "git"}
  /\ emits = {SampleTable}
  /\ InitFresh
  /\ InitRun

\* the program as written on a fresh working directory, no failure, the
\* tool writing any table
InitClean ==
  /\ max_workers = ReferenceWorkers
  /\ faulty = {}
  /\ emits = Tables
  /\ InitFresh
  /\ InitRun

Next ==
  \/ Submit
  \/ AsCompleted
  \/ Iterate
  \/ Shutdown
  \/ \E w \in Workers : TakeWork(w)
  \/ \E w \in Workers : BaseAcquire(w)
  \/ \E w \in Workers : BaseCheck(w)
  \/ \E w \in Workers : BaseFetch(w)
  \/ \E w \in Workers : DwAcquire(w)
  \/ \E w \in Workers : DwCheck(w)
  \/ \E w \in Workers : DwRmtree(w)
  \/ \E w \in Workers : DwClone(w)
  \/ \E w \in Workers : SkewedCheck(w)
  \/ \E w \in Workers : CsvCheck(w)
  \/ \E w \in Workers : Transform(w)
  \/ \E w \in Workers : ReadFilter(w)
  \/ \E w \in Workers : ToHdf(w)
  \/ \E w \in Workers : Remove(w)

\* Spec: the program as written.  SpecData: its data path, with every
\* table the tool may write.  SpecWorkers: the pool size as a parameter.
Spec == Init /\ [][Next]_vars
SpecData == InitData /\ [][Next]_vars
SpecWorkers == InitWorkers /\ [][Next]_vars
\* SpecClean: a first run, in which nothing fails.
SpecClean == InitClean /\ [][Next]_vars

\* the threads keep being scheduled and every external call returns or
\* fails: a step that can be taken is eventually taken
Fairness == WF_vars(Next)
SpecWorkersFair == SpecWorkers /\ Fairness

\* ================================================================ claims
BaseSection == {"base_check", "base_fetch"}
DwSection == {"dw_check", "dw_rmtree", "dw_clone"}
\* the positions of a worker that has left ensure_base_dataset_downloaded
AfterBase == {"dw_lock"} \cup DwSection \cup
             {"skewed_check", "csv_check", "transform", "read_csv", "to_hdf",
              "remove"}

MutualExclusion ==
  \A w1, w2 \in Workers :
    w1 # w2 => /\ ~(wpc[w1] \in BaseSection /\ wpc[w2] \in BaseSection)
               /\ ~(wpc[w1] \in DwSection /\ wpc[w2] \in DwSection)

Fetched(op) == {i \in Futures : op \in steps[i]}
FetchFailed(e) == {i \in Futures : fresult[i] = e}
\* some invocation has been through ensure_base_dataset_downloaded
BaseEnsured ==
  \/ \E i \in Futures : fstate[i] = "FINISHED"
  \/ \E w \in Workers : wpc[w] \in AfterBase

\* C1 as stated: concurrent ensure(R) calls on an absent R execute exactly
\* one fetch of R in total, and no two workers are ever inside the
\* check-and-fetch section of the same R together.
C1_ExactlyOneFetch ==
  /\ MutualExclusion
  /\ Cardinality(Fetched("curl")) <= 1
  /\ Cardinality(Fetched("git")) <= 1
  /\ BaseEnsured => Cardinality(Fetched("curl")) = 1

\* C1 amended: no two workers are ever inside the check-and-fetch section of
\* the same R together, and every fetch of R beyond the first follows a
\* failed fetch of R: the fetches executed are at most one more than the
\* fetches that failed, at least one once a caller is through ensure(R),
\* hence exactly one when no fetch fails.
C1_OneFetchPerFailure ==
  /\ MutualExclusion
  /\ Cardinality(Fetched("curl")) <= 1 + Cardinality(FetchFailed(CurlError))
  /\ Cardinality(Fetched("git")) <= 1 + Cardinality(FetchFailed(GitError))
  /\ BaseEnsured => Cardinality(Fetched("curl")) >= 1
  /\ (BaseEnsured /\ FetchFailed(CurlError) = {})
       => Cardinality(Fetched("curl")) = 1

\* two workers call ensure(base dataset) together: one fetches, the other
\* waits for the lock
C1_Witness ==
  \E w1, w2 \in Workers :
    /\ wpc[w1] = "base_fetch"
    /\ wpc[w2] = "base_lock"
    /\ base = "absent"

Failed(i) == fresult[i] \in Faults
AllFinished == \A i \in Futures : fstate[i] = "FINISHED"

\* C2: when prepare_datasets_for has handed control back and exactly one
\* invocation of the batch failed, it raised that invocation's fault, and
\* every invocation of the batch was run to its end, wherever the failing
\* one stood in the batch.
C2_OneFailureAllAttempted ==
  mpc = "done" =>
    \A i \in Futures :
      (Failed(i) /\ \A j \in Futures \ {i} : ~Failed(j))
        => /\ raised = [fut |-> i, exc |-> fresult[i]]
           /\ AllFinished
           /\ \A j \in Futures : fresult[j] \in Faults \cup {None}

\* the first of two invocations failed, the second was still run and
\* succeeded, and the first one's fault was raised
C2_Witness ==
  /\ mpc = "done"
  /\ n = 2
  /\ Failed(1)
  /\ fresult[2] = None
  /\ "to_hdf" \in steps[2]
  /\ raised.fut = 1

Writes == {"curl", "git", "rmtree", "mkdir", "transform", "to_hdf", "remove"}

\* C3: an invocation called while the durable artifact of its z exists
\* performs no fetch, no transform and no filesystem write, and returns
\* successfully, whatever the state of the shared resources.
C3_DurableMeansNoWork ==
  \A i \in Futures :
    "called_with_durable" \in steps[i]
      => /\ steps[i] \cap Writes = {}
         /\ fstate[i] = "FINISHED" => fresult[i] = None

\* C4: whenever an invocation returns successfully, the intermediate path
\* of its z does not exist and the durable path does.
C4_CleanAfterSuccess ==
  [][\A i \in Futures :
       (fstate[i] # "FINISHED" /\ fstate'[i] = "FINISHED" /\ fresult'[i] = None)
         => /\ ~csv'[z_values[i]].exists
            /\ h5'[z_values[i]].exists]_vars

Performs(op) == {i \in Futures : op \in steps'[i] /\ op \notin steps[i]}

\* C6: while the presence marker of R exists, no step fetches R or removes
\* anything at R's location: an ensure(R) call on a present R is a no-op,
\* the second of two consecutive calls included.
C6_PresentMeansNoFetch ==
  [][/\ BaseExists => (base' = base /\ Performs("curl") = {})
     /\ DwMarkerExists =>
          (dw' = dw /\ Performs("git") = {} /\ Performs("rmtree") = {})]_vars

\* the first invocation fetched the base dataset; the second has been
\* through ensure(base dataset) without fetching
C6_Witness ==
  /\ n = 2
  /\ "curl" \in steps[1]
  /\ base = "complete"
  /\ \E w \in Workers : wfut[w] = 2 /\ wpc[w] = "dw_lock"
  /\ "curl" \notin steps[2]

\* C7: when a fetch inside ensure(R) fails, the fault is the caller's
\* result, R's lock is free again and the presence check of R reports R
\* absent.
C7_FailedFetchLeavesAbsent ==
  [][\A i \in Futures :
       /\ (fresult[i] # CurlError /\ fresult'[i] = CurlError)
            => (base_dataset_lock' = 0 /\ ~BaseExists')
       /\ (fresult[i] # GitError /\ fresult'[i] = GitError)
            => (datawarehouse_lock' = 0 /\ ~DwMarkerExists')]_vars

\* C8: a step in which the transform invocation of a worker fails ends the
\* invocation: its future finishes with the transform's fault as its
\* result, without any load, filter, persist or delete step, and no durable
\* artifact is written; a finished invocation performs nothing further.
C8_TransformFailureAborts ==
  [][/\ \A w \in Workers :
          (wfut[w] \in Performs("transform") /\ wpc'[w] # "read_csv")
            => /\ fstate'[wfut[w]] = "FINISHED"
               /\ fresult'[wfut[w]] = TransformError
               /\ steps'[wfut[w]] \cap {"read_csv", "filter", "to_hdf", "remove"} = {}
               /\ h5' = h5
     /\ \A i \in Futures :
          fstate[i] = "FINISHED"
            => /\ fstate'[i] = "FINISHED"
               /\ steps'[i] = steps[i]
               /\ fresult'[i] = fresult[i]]_vars

\* the transform of an invocation failed: the run raised its fault and no
\* durable artifact exists for its z
C8_Witness ==
  /\ mpc = "done"
  /\ \E i \in Futures :
       /\ fresult[i] = TransformError
       /\ "transform" \in steps[i]
       /\ "read_csv" \notin steps[i]
       /\ ~h5[z_values[i]].exists
       /\ raised = [fut |-> i, exc |-> TransformError]

\* a persisted row without its Z column
CsvPart(r) == [EventId |-> r.EventId, PRI_tau_pt |-> r.PRI_tau_pt]

\* C9: the table an invocation persists holds exactly the rows of the
\* table it loaded whose PRI_tau_pt is greater than 22, each once.
C9_FilterExact ==
  [][\A z \in ZStrings :
       h5'[z] # h5[z] =>
         \E w \in Workers :
           /\ wpc[w] = "to_hdf"
           /\ zOf(w) = z
           /\ \A k \in DOMAIN h5'[z].rows : h5'[z].rows[k].PRI_tau_pt > 22
           /\ {CsvPart(r) : r \in Range(h5'[z].rows)}
                = {r \in Range(wraw[w]) : r.PRI_tau_pt > 22}
           /\ Len(h5'[z].rows)
                = Cardinality({r \in Range(wraw[w]) : r.PRI_tau_pt > 22})
           /\ Len(h5'[z].rows) <= Len(wraw[w])]_vars

\* a table with a row at 22 and a row at 23 was loaded and one row was
\* persisted
C9_Witness ==
  \E w \in Workers :
    /\ wpc[w] = "remove"
    /\ wraw[w] = SampleTable
    /\ Len(h5[zOf(w)].rows) = 1

\* the value of z, in tenths
ZValue == [z \in ZStrings |-> IF z = "0.9" THEN 9 ELSE 10]

\* C10: a durable artifact is written only at the path of the z of the
\* invocation that writes it, and every row of it carries that z's numeric
\* value in column Z.
C10_ZColumnIsOwnZ ==
  [][\A z \in ZStrings :
       h5'[z] # h5[z] =>
         /\ \E w \in Workers : wpc[w] = "to_hdf" /\ zOf(w) = z
         /\ \A k \in DOMAIN h5'[z].rows : h5'[z].rows[k].Z = ZValue[z]]_vars

\* a batch of two different values: both artifacts were written in this
\* run, with rows, and their Z columns differ
C10_Witness ==
  /\ n = 2
  /\ z_values[1] # z_values[2]
  /\ "to_hdf" \in steps[1]
  /\ "to_hdf" \in steps[2]
  /\ \A i \in Futures : h5[z_values[i]].rows # <<>>
  /\ h5[z_values[1]].rows[1].Z # h5[z_values[2]].rows[1].Z

\* invocation j is a later call for the z of invocation i, which failed at
\* its load, persist or delete step
RetryOf(i, j) ==
  /\ i < j
  /\ z_values[i] = z_values[j]
  /\ fresult[i] \in {ReadError, WriteError, RemoveError}
  /\ fstate[j] = "FINISHED"

\* C11: a later call for the z of an invocation that failed at its load,
\* persist or delete step does not run the transform again; after a failed
\* delete (the durable artifact was written) it performs nothing; after a
\* failed load or persist it resumes there, so that when it returns
\* successfully the durable artifact of z is the complete table.
C11_RetryResumes ==
  \A i, j \in Futures :
    RetryOf(i, j) =>
      /\ "transform" \notin steps[j]
      /\ fresult[i] = RemoveError => steps[j] \cap Writes = {}
      /\ (fresult[i] \in {ReadError, WriteError} /\ fresult[j] = None)
           => /\ h5[z_values[j]].complete
              /\ {"read_csv", "to_hdf"} \subseteq steps[j]

\* C12: a fetch of R starts only when nothing is at R's storage location:
\* the clone starts on no checkout directory and the download on no file;
\* a worker that found the tool's marker absent beside a stale checkout
\* removes the checkout before it clones.
C12_FetchOnCleanLocation ==
  [][/\ Performs("git") # {} => dw = "absent"
     /\ Performs("curl") # {} => base = "absent"
     /\ \A w \in Workers :
          (wpc[w] = "dw_rmtree" /\ dw = "stale" /\ wpc'[w] # wpc[w])
            => /\ wfut[w] \in Performs("rmtree")
               /\ dw' = "absent"
               /\ wpc'[w] = "dw_clone"]_vars

\* the clone of the first invocation failed and left a checkout without the
\* marker; the second removed it and cloned
C12_Witness ==
  /\ n = 2
  /\ fresult[1] = GitError
  /\ {"rmtree", "git"} \subseteq steps[2]
  /\ dw = "present"

\* worker w performs the presence check of its ensure call in the step
ChecksBase(w) == wpc[w] = "base_check" /\ wpc'[w] # "base_check"
ChecksDw(w) == wpc[w] = "dw_check" /\ wpc'[w] # "dw_check"

\* C13: a caller of ensure(R) that makes its presence check after a fetch
\* of R failed, no fetch of R having succeeded, finds R absent and goes on
\* to fetch R itself; one that makes its check after a fetch of R succeeded
\* returns without fetching.
C13_FailureNotCached ==
  [][\A w \in Workers :
       /\ (ChecksBase(w) /\ FetchFailed(CurlError) # {} /\ base # "complete")
            => wpc'[w] = "base_fetch"
       /\ (ChecksBase(w) /\ base = "complete") => wpc'[w] = "dw_lock"
       /\ (ChecksDw(w) /\ FetchFailed(GitError) # {} /\ dw # "present")
            => wpc'[w] = "dw_rmtree"
       /\ (ChecksDw(w) /\ dw = "present") => wpc'[w] = "skewed_check"]_vars

\* the faults of the invocations finished so far, in the order they finished
RECURSIVE FaultsOf(_)
FaultsOf(done) ==
  IF done = <<>> THEN <<>>
  ELSE (IF Failed(Head(done)) THEN <<fresult[Head(done)]>> ELSE <<>>)
       \o FaultsOf(Tail(done))

\* the fault raised is that of the first failed result as_completed yielded
RaisedIsFirstObserved ==
  raised # NoException =>
    /\ Failed(raised.fut)
    /\ raised.exc = fresult[raised.fut]
    /\ \E k \in DOMAIN yielded :
         /\ yielded[k] = raised.fut
         /\ \A m \in 1..(k - 1) : ~Failed(yielded[m])

\* C14: the runner raises at most one fault, once; it is the fault of the
\* first invocation, in the order as_completed yields the results, whose
\* result is a fault; every fault, the raised one and the others, is
\* printed by catch when it is caught, and a run in which an invocation
\* failed ends with a fault raised.
C14_FirstObservedFaultRaised ==
  [][/\ raised # NoException => raised' = raised
     /\ RaisedIsFirstObserved'
     /\ (printed = FaultsOf(completed))'
     /\ (mpc = "done" /\ \E i \in Futures : Failed(i))'
          => (raised # NoException)']_vars

\* both invocations of a batch failed and the result of the second was
\* observed first: its fault is the one raised, both were printed
C14_Witness ==
  /\ mpc = "done"
  /\ n = 2
  /\ Failed(1) /\ Failed(2)
  /\ yielded[1] = 2
  /\ raised.fut = 2
  /\ Len(printed) = 2

\* C15: when prepare_datasets_for has handed control back, by return or by
\* raise, every invocation it submitted has finished: none is queued, none
\* is running, every pool thread is idle; and it has returned without an
\* exception exactly when no invocation failed.
C15_ControlBackAfterAll ==
  mpc = "done" =>
    /\ AllFinished
    /\ queue = <<>>
    /\ \A w \in Workers : wpc[w] = "idle" /\ wfut[w] = 0
    /\ \A i \in Futures : fresult[i] \in Faults \cup {None}
    /\ raised = NoException <=> \A i \in Futures : ~Failed(i)

\* the first result observed was a fault; the second invocation, whose
\* result was never read, had been run to its end (it failed too) when
\* control went back
C15_Witness ==
  /\ mpc = "done"
  /\ n = 2
  /\ yielded = <<1>>
  /\ raised.fut = 1
  /\ Failed(2)
  /\ {"read_csv"} \subseteq steps[2]

\* the invocations in progress
Running == {i \in Futures : fstate[i] = "RUNNING"}
Started(i) == fstate[i] \in {"RUNNING", "FINISHED"}

\* C16: the invocations in progress are never more than the pool size, each
\* on a thread of its own (with a pool of one thread, never two together),
\* and an invocation starts only when every invocation submitted before it
\* has started.
C16_PoolBound ==
  [][/\ Cardinality(Running') <= max_workers
     /\ max_workers = ReferenceWorkers =>
          \A i, j \in Running' : i = j
     /\ Running' = {wfut'[w] : w \in {v \in Workers : wpc'[v] # "idle"}}
     /\ \A i \in Running' \ Running :
          \A j \in Futures : j < i => Started(j)]_vars

\* a pool of one thread: the first invocation is running and the second,
\* submitted with it, waits in the queue
C16_Witness ==
  /\ max_workers = 1
  /\ n = 2
  /\ fstate = <<"RUNNING", "PENDING">>
  /\ queue = <<2>>
  /\ wpc[1] = "dw_clone"

HoldsBase(w) == base_dataset_lock = w
HoldsDw(w) == datawarehouse_lock = w

\* C17: a worker holds the lock of a resource exactly while it is inside
\* the check-and-fetch section of that resource: never the two locks
\* together, no lock during the transform, load, filter, persist or delete
\* steps or while idle, and both locks are free whenever no worker is inside
\* a section, whatever fetches have failed before.
C17_LocksOnlyWhileEnsuring ==
  /\ base_dataset_lock \in Workers \cup {0}
  /\ datawarehouse_lock \in Workers \cup {0}
  /\ \A w \in Workers :
       /\ ~(HoldsBase(w) /\ HoldsDw(w))
       /\ HoldsBase(w) <=> wpc[w] \in BaseSection
       /\ HoldsDw(w) <=> wpc[w] \in DwSection
       /\ wpc[w] \in {"idle", "skewed_check", "csv_check", "transform",
                      "read_csv", "to_hdf", "remove"}
            => ~HoldsBase(w) /\ ~HoldsDw(w)
  /\ (\A w \in Workers : wpc[w] \notin BaseSection) => base_dataset_lock = 0
  /\ (\A w \in Workers : wpc[w] \notin DwSection) => datawarehouse_lock = 0

\* a download has failed and its lock was released: the worker of the
\* other invocation has acquired it since and is downloading, holding that
\* lock only
C17_Witness ==
  /\ FetchFailed(CurlError) # {}
  /\ \E w \in Workers :
       /\ wpc[w] = "base_fetch"
       /\ HoldsBase(w)
       /\ datawarehouse_lock = 0

\* the steps of prepare(z) after its two ensure calls
BuildSteps == {"transform", "read_csv", "filter", "to_hdf", "remove"}
FetchFaults == {CurlError, GitError}

\* C18: the transform is invoked only in a state where the presence markers
\* of the base dataset and of the tool both exist, by an invocation that is
\* past both ensure calls; an invocation whose fetch failed ends with that
\* fault, having performed no transform and no later step, and the step in
\* which its fetch fails changes neither file of any z.
C18_TransformNeedsBoth ==
  [][/\ Performs("transform") # {} => (BaseExists /\ DwMarkerExists)
     /\ \A w \in Workers :
          wfut[w] \in Performs("transform") => wpc[w] = "transform"
     /\ \A w \in Workers :
          wpc'[w] \in {"skewed_check", "csv_check", "transform"}
            => (BaseExists /\ DwMarkerExists)'
     /\ \A i \in Futures :
          fresult'[i] \in FetchFaults =>
            /\ steps'[i] \cap BuildSteps = {}
            /\ fresult[i] # fresult'[i] => (csv' = csv /\ h5' = h5)]_vars

\* the clone of the first invocation failed after its download: it ended
\* without a transform; the second invocation cloned and ran the transform
C18_Witness ==
  /\ n = 2
  /\ fresult[1] = GitError
  /\ "curl" \in steps[1]
  /\ "transform" \in steps[2]
  /\ dw = "present"

\* invocation i is the first of the batch for its z, and j a later one for
\* the same z
SameZ(i, j) ==
  /\ i < j
  /\ z_values[i] = z_values[j]
  /\ \A k \in 1..(i - 1) : z_values[k] # z_values[i]
Transformed(z) == {i \in Futures : z_values[i] = z /\ "transform" \in steps[i]}

Done == mpc = "done"

\* C20: when the threads keep running and every external call returns or
\* fails, prepare_datasets_for hands control back for every batch, pool
\* size and mix of failed and successful fetches; before that some thread
\* can always take a step: no state is reached in which every worker waits
\* for a lock and the main thread for the pool.
C20_Terminates ==
  /\ [](Done \/ ENABLED Next)
  /\ <>Done

\* a pool of two threads has run a batch in which a download failed while
\* the other invocation waited for the lock, and control is back
C20_Witness ==
  /\ Done
  /\ max_workers = 2
  /\ n = 2
  /\ FetchFailed(CurlError) # {}
  /\ \E i \in Futures : fresult[i] = None

====
